---- MODULE Spec2Model ----
(***************************************************************************)
(* Position-based 3D bin packing (hhs4607/Container_OP_CC).                *)
(*                                                                         *)
(* The model follows src/improved_3d_bin_packing.py (improved_3d_packing   *)
(* and Container3D) and src/advanced_3d_bin_packing.py                     *)
(* (advanced_3d_packing and its Container3D).                              *)
(*                                                                         *)
(* Python objects are references: an Item3D is an address (a number        *)
(* 1..n) into `heap', and every list of items holds addresses.  Lengths,   *)
(* coordinates and weights are floats in the source; the model takes       *)
(* them from the non-negative integers, on which float arithmetic is       *)
(* exact, so Point3D's 0.001 tolerance is plain equality.                  *)
(***************************************************************************)
EXTENDS Integers, Sequences, FiniteSets, TLC

VARIABLES
    variant,         \* which driver runs: "improved" or "advanced"
    heap,            \* address -> fields of the Item3D object
    items,           \* argument `items`: list of addresses
    container_l,     \* argument container_l
    container_w,     \* argument container_w
    container_h,     \* argument container_h
    max_weight,      \* argument max_weight (Inf = float('inf'))
    allow_rotation,  \* argument allow_rotation
    sorted_items,    \* local sorted_items
    packable_items,  \* local packable_items
    unpacked_items,  \* local unpacked_items
    containers,      \* local containers: list of Container3D
    idx,             \* position of the running for-loop (1-based)
    place_result,    \* return value of the latest place_item call
    pc,              \* "sort", "filter", "pack", "done"
    \* src/first_fit_decreasing.py and src/best_fit_decreasing.py
    bin_algo,            \* which packer runs: "ffd" or "bfd"
    bin_items,           \* argument `items`: list of sizes
    bin_capacity,        \* argument bin_capacity
    bin_sorted,          \* local sorted_items
    bin_unpacked,        \* local unpacked_items
    bin_packable,        \* local packable_items
    bins,                \* local bins: list of lists of sizes
    remaining_capacity,  \* local remaining_capacity (best fit only)
    bin_idx,             \* position of the packing loop (1-based)
    bin_pc               \* "sort", "pack", "done"

vars3d == <<variant, heap, items, container_l, container_w, container_h,
            max_weight, allow_rotation, sorted_items, packable_items,
            unpacked_items, containers, idx, place_result, pc>>

vars1d == <<bin_algo, bin_items, bin_capacity, bin_sorted, bin_unpacked,
            bin_packable, bins, remaining_capacity, bin_idx, bin_pc>>

vars == <<vars3d, vars1d>>

\* no one-dimensional packer runs
Idle1D ==
    /\ bin_algo = "none"
    /\ bin_items = <<>>
    /\ bin_capacity = 0
    /\ bin_sorted = <<>>
    /\ bin_unpacked = <<>>
    /\ bin_packable = <<>>
    /\ bins = <<>>
    /\ remaining_capacity = <<>>
    /\ bin_idx = 1
    /\ bin_pc = "done"

\* no three-dimensional driver runs
Idle3D ==
    /\ variant = "none"
    /\ heap = <<>>
    /\ items = <<>>
    /\ container_l = 0
    /\ container_w = 0
    /\ container_h = 0
    /\ max_weight = 0
    /\ allow_rotation = FALSE
    /\ sorted_items = <<>>
    /\ packable_items = <<>>
    /\ unpacked_items = <<>>
    /\ containers = <<>>
    /\ idx = 1
    /\ place_result = "not called"
    /\ pc = "done"

args == <<variant, items, container_l, container_w, container_h,
          max_weight, allow_rotation>>

(***************************************************************************)
(* Bounds and input sets                                                   *)
(***************************************************************************)
MaxItems == 3

\* float('inf'), the default of max_weight; every weight is below it.
Inf == -1

\* <<shape, weight>> of the items a run may be given
ItemKinds == {<< <<1, 1, 1>>, 1 >>, << <<1, 1, 1>>, 2 >>,
              << <<2, 1, 1>>, 1 >>, << <<2, 2, 1>>, 1 >>,
              << <<2, 2, 1>>, 2 >>, << <<1, 1, 3>>, 1 >>}
ContainerShapes == {<<3, 2, 1>>, <<2, 2, 2>>}
MaxWeightChoices == {1, Inf}

\* a <= b on floats where b may be float('inf')
LeqF(a, b) == b = Inf \/ (a /= Inf /\ a <= b)

(***************************************************************************)
(* Item3D                                                                  *)
(***************************************************************************)
Item3D(name, shape, weight) ==
    [name |-> name, length |-> shape[1], width |-> shape[2],
     height |-> shape[3], weight |-> weight]

volume(it) == it.length * it.width * it.height

\* get_rotations with the fourth triple mistyped as (w, h, h)
get_rotations_Mistyped(it) ==
    << <<it.length, it.width, it.height>>,
       <<it.length, it.height, it.width>>,
       <<it.width, it.length, it.height>>,
       <<it.width, it.height, it.height>>,
       <<it.height, it.length, it.width>>,
       <<it.height, it.width, it.length>> >>

get_rotations(it) ==
    << <<it.length, it.width, it.height>>,
       <<it.length, it.height, it.width>>,
       <<it.width, it.length, it.height>>,
       <<it.width, it.height, it.length>>,
       <<it.height, it.length, it.width>>,
       <<it.height, it.width, it.length>> >>

(***************************************************************************)
(* PlacedItem                                                              *)
(***************************************************************************)
PlacedItem(item, x, y, z, l, w, h) ==
    [item |-> item, x |-> x, y |-> y, z |-> z,
     length |-> l, width |-> w, height |-> h]

\* get_bounds whose upper corner forgets the height of the box
get_bounds_Flat(pi) ==
    [min |-> <<pi.x, pi.y, pi.z>>,
     max |-> <<pi.x + pi.length, pi.y + pi.width, pi.z>>]

get_bounds(pi) ==
    [min |-> <<pi.x, pi.y, pi.z>>,
     max |-> <<pi.x + pi.length, pi.y + pi.width, pi.z + pi.height>>]

(***************************************************************************)
(* Container3D                                                             *)
(***************************************************************************)
Container3D(l, w, h, mw) ==
    [length |-> l, width |-> w, height |-> h, max_weight |-> mw,
     placed_items |-> <<>>]

RECURSIVE SumSeq(_)
SumSeq(s) == IF s = <<>> THEN 0 ELSE Head(s) + SumSeq(Tail(s))

used_volume(c) ==
    SumSeq([k \in 1..Len(c.placed_items) |->
              c.placed_items[k].length * c.placed_items[k].width
                * c.placed_items[k].height])

\* Container3D.volume
container_volume(c) == c.length * c.width * c.height

remaining_volume(c) == container_volume(c) - used_volume(c)

\* (used_volume / volume) * 100 if volume > 0 else 0, the quotient kept as
\* the fraction num / den
volume_utilization(c) ==
    IF container_volume(c) > 0
    THEN [num |-> used_volume(c) * 100, den |-> container_volume(c)]
    ELSE [num |-> 0, den |-> 1]

used_weight(c) ==
    SumSeq([k \in 1..Len(c.placed_items) |->
              heap[c.placed_items[k].item].weight])

\* the corners without the one straight above the anchor
Corners_NoTop(pi) ==
    LET b == get_bounds(pi)
    IN  {<<b.min[1], b.min[2], b.min[3]>>, <<b.max[1], b.min[2], b.min[3]>>,
         <<b.min[1], b.max[2], b.min[3]>>,
         <<b.max[1], b.max[2], b.min[3]>>, <<b.max[1], b.min[2], b.max[3]>>,
         <<b.min[1], b.max[2], b.max[3]>>, <<b.max[1], b.max[2], b.max[3]>>}

\* The eight corners of one placed box.
Corners(pi) ==
    LET b == get_bounds(pi)
    IN  {<<b.min[1], b.min[2], b.min[3]>>, <<b.max[1], b.min[2], b.min[3]>>,
         <<b.min[1], b.max[2], b.min[3]>>, <<b.min[1], b.min[2], b.max[3]>>,
         <<b.max[1], b.max[2], b.min[3]>>, <<b.max[1], b.min[2], b.max[3]>>,
         <<b.min[1], b.max[2], b.max[3]>>, <<b.max[1], b.max[2], b.max[3]>>}

\* The set built by get_corner_points.  The source returns list(points),
\* whose order is the iteration order of a Python set; the model keeps the
\* set and leaves the order open (see find_best_position).
get_corner_points(c) ==
    {<<0, 0, 0>>} \cup
    UNION {Corners(c.placed_items[k]) : k \in 1..Len(c.placed_items)}

\* check_collision whose z test forgets the height of the new box
check_collision_NoHeight(c, x, y, z, l, w, h) ==
    \E k \in 1..Len(c.placed_items) :
        LET b == get_bounds(c.placed_items[k])
        IN  /\ x < b.max[1] /\ x + l > b.min[1]
            /\ y < b.max[2] /\ y + w > b.min[2]
            /\ z < b.max[3] /\ z > b.min[3]

check_collision(c, x, y, z, l, w, h) ==
    \E k \in 1..Len(c.placed_items) :
        LET b == get_bounds(c.placed_items[k])
        IN  /\ x < b.max[1] /\ x + l > b.min[1]
            /\ y < b.max[2] /\ y + w > b.min[2]
            /\ z < b.max[3] /\ z + h > b.min[3]

\* can_place whose bounds check leaves out the width
can_place_NoWidthCheck(c, l, w, h, x, y, z) ==
    IF x + l > c.length \/ z + h > c.height
    THEN FALSE
    ELSE ~check_collision(c, x, y, z, l, w, h)

can_place(c, l, w, h, x, y, z) ==
    IF x + l > c.length \/ y + w > c.width \/ z + h > c.height
    THEN FALSE
    ELSE ~check_collision(c, x, y, z, l, w, h)

\* the score with z weighted by the length alone
Score_ZTimesLength(c, p, d) ==
    LET base == p[3] * c.length + p[2] * c.length + p[1]
    IN  IF \/ p[1] = 0 \/ p[1] + d[1] = c.length
           \/ p[2] = 0 \/ p[2] + d[2] = c.width
           \/ p[3] = 0 \/ p[3] + d[3] = c.height
        THEN base - 1
        ELSE base

\* the score with the weights of x and y exchanged
Score_YBeforeX(c, p, d) ==
    LET base == p[3] * c.length * c.width + p[1] * c.length + p[2]
    IN  IF \/ p[1] = 0 \/ p[1] + d[1] = c.length
           \/ p[2] = 0 \/ p[2] + d[2] = c.width
           \/ p[3] = 0 \/ p[3] + d[3] = c.height
        THEN base - 1
        ELSE base

\* score of a feasible (point, rotation) pair, wall bonus included
Score(c, p, d) ==
    LET base == p[3] * c.length * c.width + p[2] * c.length + p[1]
    IN  IF \/ p[1] = 0 \/ p[1] + d[1] = c.length
           \/ p[2] = 0 \/ p[2] + d[2] = c.width
           \/ p[3] = 0 \/ p[3] + d[3] = c.height
        THEN base - 1
        ELSE base

\* the (rotation index, point) pairs that pass can_place
FeasiblePairs(c, it) ==
    {rp \in (1..6) \X get_corner_points(c) :
        LET d == get_rotations(it)[rp[1]]
        IN  can_place(c, d[1], d[2], d[3], rp[2][1], rp[2][2], rp[2][3])}

\* score of the (rotation index, point) pair rp
PairScore(c, it, rp) == Score(c, rp[2], get_rotations(it)[rp[1]])

\* best_score after the loops, F being the feasible pairs
MinScore(c, it, F) ==
    CHOOSE m \in {PairScore(c, it, rp) : rp \in F} :
        \A rp \in F : m <= PairScore(c, it, rp)

\* the comparison written score <= best_score: the last rotation wins a tie
BestPairs_LastWins(c, it, F) ==
    UNION {UNION {{rp \in M : \A o \in M : rp[1] >= o[1]} :
                  M \in {{rp \in F : PairScore(c, it, rp) = m}}} :
           m \in {MinScore(c, it, F)}}

\* The pairs of F that the loops can end with.  They keep the first pair
\* of minimal score (score < best_score is strict), rotations outermost:
\* the rotation is the lowest index that reaches the minimum, the point is
\* the first point of list(points) that reaches it with this rotation.
\* The order of list(points) is not fixed by the source, so every such
\* point is a possible result.  (m and M range over one-element sets,
\* which only gives the two values a name.)
BestPairs(c, it, F) ==
    UNION {UNION {{rp \in M : \A o \in M : rp[1] <= o[1]} :
                  M \in {{rp \in F : PairScore(c, it, rp) = m}}} :
           m \in {MinScore(c, it, F)}}

\* The values find_best_position can return, each <<x, y, z, l, w, h>>;
\* the empty set stands for None.
find_best_position(c, it) ==
    UNION {{<<rp[2][1], rp[2][2], rp[2][3],
              get_rotations(it)[rp[1]][1], get_rotations(it)[rp[1]][2],
              get_rotations(it)[rp[1]][3]>> : rp \in BestPairs(c, it, F)} :
           F \in {FeasiblePairs(c, it)} \ {{}}}

\* place_item handing length and width to can_place in the wrong order
place_item_ArgsSwapped(c, item, x, y, z, l, w, h) ==
    IF can_place(c, w, l, h, x, y, z)
    THEN [c |-> [c EXCEPT !.placed_items =
                    Append(@, PlacedItem(item, x, y, z, l, w, h))],
          ret |-> "True"]
    ELSE [c |-> c, ret |-> "False"]

\* place_item putting the new PlacedItem in front of the list
place_item_Prepend(c, item, x, y, z, l, w, h) ==
    IF can_place(c, l, w, h, x, y, z)
    THEN [c |-> [c EXCEPT !.placed_items =
                    <<PlacedItem(item, x, y, z, l, w, h)>> \o @],
          ret |-> "True"]
    ELSE [c |-> c, ret |-> "False"]

\* place_item: the container after the call and the value returned
place_item(c, item, x, y, z, l, w, h) ==
    IF can_place(c, l, w, h, x, y, z)
    THEN [c |-> [c EXCEPT !.placed_items =
                    Append(@, PlacedItem(item, x, y, z, l, w, h))],
          ret |-> "True"]
    ELSE [c |-> c, ret |-> "False"]

(***************************************************************************)
(* src/advanced_3d_bin_packing.py: Item3D, PlacedItem, Container3D         *)
(***************************************************************************)
\* None
None == <<>>

\* Item3D of the advanced module: position and rotation are fields of the
\* item itself.
adv_Item3D(name, shape, weight) ==
    [name |-> name, length |-> shape[1], width |-> shape[2],
     height |-> shape[3], weight |-> weight,
     position |-> None, rotation |-> 0]

get_dimensions(it, rotation) == get_rotations(it)[(rotation % 6) + 1]

adv_PlacedItem(item, x, y, z, rotation) ==
    [item |-> item, x |-> x, y |-> y, z |-> z, rotation |-> rotation]

\* PlacedItem.get_bounds reads the dimensions through the item reference
adv_get_bounds(h, pi) ==
    LET d == get_dimensions(h[pi.item], pi.rotation)
    IN  [min |-> <<pi.x, pi.y, pi.z>>,
         max |-> <<pi.x + d[1], pi.y + d[2], pi.z + d[3]>>]

adv_used_weight(h, c) ==
    SumSeq([k \in 1..Len(c.placed_items) |-> h[c.placed_items[k].item].weight])

\* item.weight > self.remaining_weight, remaining_weight = max_weight - used
adv_too_heavy(h, c, it) ==
    c.max_weight /= Inf /\ it.weight > c.max_weight - adv_used_weight(h, c)

adv_check_collision(h, c, x, y, z, l, w, d) ==
    \E k \in 1..Len(c.placed_items) :
        LET b == adv_get_bounds(h, c.placed_items[k])
        IN  /\ x < b.max[1] /\ x + l > b.min[1]
            /\ y < b.max[2] /\ y + w > b.min[2]
            /\ z < b.max[3] /\ z + d > b.min[3]

adv_can_place(h, c, it, x, y, z, rotation) ==
    IF adv_too_heavy(h, c, it) THEN FALSE
    ELSE LET d == get_dimensions(it, rotation)
         IN  IF x + d[1] > c.length \/ y + d[2] > c.width \/ z + d[3] > c.height
             THEN FALSE
             ELSE ~adv_check_collision(h, c, x, y, z, d[1], d[2], d[3])

\* place_item that also stores the turned dimensions on the item
adv_place_item_StoresDims(h, c, item, x, y, z, rotation) ==
    IF adv_can_place(h, c, h[item], x, y, z, rotation)
    THEN [c |-> [c EXCEPT !.placed_items =
                    Append(@, adv_PlacedItem(item, x, y, z, rotation))],
          heap |-> [h EXCEPT ![item].position = <<x, y, z>>,
                             ![item].rotation = rotation,
                             ![item].length =
                                 get_dimensions(h[item], rotation)[1],
                             ![item].width =
                                 get_dimensions(h[item], rotation)[2],
                             ![item].height =
                                 get_dimensions(h[item], rotation)[3]],
          ret |-> "True"]
    ELSE [c |-> c, heap |-> h, ret |-> "False"]

\* place_item: the container and the heap after the call, and the value
\* returned; the position and the rotation are written onto the item.
adv_place_item(h, c, item, x, y, z, rotation) ==
    IF adv_can_place(h, c, h[item], x, y, z, rotation)
    THEN [c |-> [c EXCEPT !.placed_items =
                    Append(@, adv_PlacedItem(item, x, y, z, rotation))],
          heap |-> [h EXCEPT ![item].position = <<x, y, z>>,
                             ![item].rotation = rotation],
          ret |-> "True"]
    ELSE [c |-> c, heap |-> h, ret |-> "False"]

\* extreme_points: the origin, then three points per placed item
RECURSIVE extreme_points(_, _, _)
extreme_points(h, c, n) ==
    IF n = 0 THEN << <<0, 0, 0>> >>
    ELSE LET b == adv_get_bounds(h, c.placed_items[n])
         IN  extreme_points(h, c, n - 1) \o
             << <<b.max[1], b.min[2], b.min[3]>>,
                <<b.min[1], b.max[2], b.min[3]>>,
                <<b.min[1], b.min[2], b.max[3]>> >>

\* The two nested loops of find_best_position from candidate n on:
\* candidate n is point (n-1) \div 6 + 1 with rotation (n-1) % 6.
RECURSIVE adv_search(_, _, _, _, _, _, _)
adv_search(h, c, it, ep, n, best_position, best_volume_utilization) ==
    IF n > 6 * Len(ep) THEN best_position
    ELSE LET point == ep[((n - 1) \div 6) + 1]
             rotation == (n - 1) % 6
             volume_util == 0 - (point[3] * c.length * c.width
                                 + point[2] * c.length + point[1])
         IN  IF /\ adv_can_place(h, c, it, point[1], point[2], point[3],
                                 rotation)
                /\ volume_util > best_volume_utilization
             THEN adv_search(h, c, it, ep, n + 1,
                             <<point[1], point[2], point[3], rotation>>,
                             volume_util)
             ELSE adv_search(h, c, it, ep, n + 1, best_position,
                             best_volume_utilization)

\* a tuple <<x, y, z, rotation>> or None
adv_find_best_position(h, c, it) ==
    adv_search(h, c, it, extreme_points(h, c, Len(c.placed_items)), 1,
               None, -1)

(***************************************************************************)
(* improved_3d_packing                                                     *)
(***************************************************************************)
\* sorted(items, key=volume, reverse=True): stable, equal keys keep their
\* input order.
\* an unstable sort: an item goes in front of the items of equal volume
RECURSIVE InsertByVolume_Unstable(_, _)
InsertByVolume_Unstable(s, a) ==
    IF s = <<>> THEN <<a>>
    ELSE IF volume(heap[Head(s)]) > volume(heap[a])
         THEN <<Head(s)>> \o InsertByVolume_Unstable(Tail(s), a)
         ELSE <<a>> \o s

RECURSIVE InsertByVolume(_, _)
InsertByVolume(s, a) ==
    IF s = <<>> THEN <<a>>
    ELSE IF volume(heap[Head(s)]) >= volume(heap[a])
         THEN <<Head(s)>> \o InsertByVolume(Tail(s), a)
         ELSE <<a>> \o s

RECURSIVE SortedByVolume(_)
SortedByVolume(s) ==
    IF s = <<>> THEN <<>>
    ELSE InsertByVolume(SortedByVolume(SubSeq(s, 1, Len(s) - 1)), s[Len(s)])

\* rotations_to_try of the pre-filter
rotations_to_try(it) ==
    IF allow_rotation THEN get_rotations(it) ELSE <<get_rotations(it)[1]>>

\* can_fit comparing length and width only
can_fit_IgnoresHeight(it) ==
    \E r \in 1..Len(rotations_to_try(it)) :
        LET d == rotations_to_try(it)[r]
        IN  d[1] <= container_l /\ d[2] <= container_w

\* can_fit trying the base orientation only, whatever allow_rotation is
can_fit_BaseOnly(it) ==
    LET d == get_rotations(it)[1]
    IN  d[1] <= container_l /\ d[2] <= container_w /\ d[3] <= container_h

\* can_fit of the pre-filter
can_fit(it) ==
    \E r \in 1..Len(rotations_to_try(it)) :
        LET d == rotations_to_try(it)[r]
        IN  d[1] <= container_l /\ d[2] <= container_w /\ d[3] <= container_h

\* The arguments of one call of driver v, before its first statement.
InitOf(v) ==
    /\ variant = v
    /\ \E n \in 0..MaxItems :
         /\ heap \in {[i \in 1..n |->
                         IF v = "improved"
                         THEN Item3D(i, k[i][1], k[i][2])
                         ELSE adv_Item3D(i, k[i][1], k[i][2])] :
                        k \in [1..n -> ItemKinds]}
         /\ items = [i \in 1..n |-> i]
    /\ \E s \in ContainerShapes :
         /\ container_l = s[1]
         /\ container_w = s[2]
         /\ container_h = s[3]
    /\ max_weight \in MaxWeightChoices
    /\ allow_rotation \in BOOLEAN
    /\ sorted_items = <<>>
    /\ packable_items = <<>>
    /\ unpacked_items = <<>>
    /\ containers = <<>>
    /\ idx = 1
    /\ place_result = "not called"
    /\ pc = "sort"
    /\ Idle1D

Init == InitOf("improved")

\* line 297
SortItems ==
    /\ variant = "improved"
    /\ pc = "sort"
    /\ sorted_items' = SortedByVolume(items)
    /\ idx' = 1
    /\ pc' = IF Len(items) = 0 THEN "done" ELSE "filter"
    /\ UNCHANGED vars1d
    /\ UNCHANGED <<args, heap, packable_items, unpacked_items, containers,
                   place_result>>

\* the pre-filter without its weight test
PreFilter_IgnoresWeight ==
    /\ variant = "improved"
    /\ pc = "filter"
    /\ LET item == sorted_items[idx]
           keep == can_fit(heap[item])
           pk == IF keep THEN Append(packable_items, item) ELSE packable_items
       IN  /\ packable_items' = pk
           /\ unpacked_items' = IF keep THEN unpacked_items
                                ELSE Append(unpacked_items, item)
           /\ IF idx < Len(sorted_items)
              THEN idx' = idx + 1 /\ pc' = "filter"
              ELSE idx' = 1 /\ pc' = IF pk = <<>> THEN "done" ELSE "pack"
    /\ UNCHANGED vars1d
    /\ UNCHANGED <<args, heap, sorted_items, containers, place_result>>

\* lines 303-315, one iteration of the pre-filter loop
PreFilter ==
    /\ variant = "improved"
    /\ pc = "filter"
    /\ LET item == sorted_items[idx]
           keep == can_fit(heap[item]) /\ LeqF(heap[item].weight, max_weight)
           pk == IF keep THEN Append(packable_items, item) ELSE packable_items
       IN  /\ packable_items' = pk
           /\ unpacked_items' = IF keep THEN unpacked_items
                                ELSE Append(unpacked_items, item)
           /\ IF idx < Len(sorted_items)
              THEN idx' = idx + 1 /\ pc' = "filter"
              ELSE idx' = 1 /\ pc' = IF pk = <<>> THEN "done" ELSE "pack"
    /\ UNCHANGED vars1d
    /\ UNCHANGED <<args, heap, sorted_items, containers, place_result>>

\* the return statement indented into the loop body
NextItem_ReturnsEarly == idx' = idx /\ pc' = "done"

\* the loop header of the packing loop: next item or return
NextItem ==
    IF idx < Len(packable_items)
    THEN idx' = idx + 1 /\ pc' = "pack"
    ELSE idx' = idx /\ pc' = "done"

\* the existing-container loop without its break: the last container with
\* a position takes the item
PlaceInLastFitting ==
    /\ variant = "improved"
    /\ pc = "pack"
    /\ LET item == packable_items[idx]
       IN  \E k \in 1..Len(containers) :
             /\ \A j \in (k + 1)..Len(containers) :
                    find_best_position(containers[j], heap[item]) = {}
             /\ \E best_pos \in find_best_position(containers[k], heap[item]) :
                  LET r == place_item(containers[k], item,
                                      best_pos[1], best_pos[2], best_pos[3],
                                      best_pos[4], best_pos[5], best_pos[6])
                  IN  /\ containers' = [containers EXCEPT ![k] = r.c]
                      /\ place_result' = r.ret
    /\ NextItem
    /\ UNCHANGED vars1d
    /\ UNCHANGED <<args, heap, sorted_items, packable_items, unpacked_items>>

\* lines 320-330, one iteration that ends in an existing container: the
\* first container whose find_best_position is not None takes the item.
PlaceInExisting ==
    /\ variant = "improved"
    /\ pc = "pack"
    /\ LET item == packable_items[idx]
       IN  \E k \in 1..Len(containers) :
             /\ \A j \in 1..(k - 1) :
                    find_best_position(containers[j], heap[item]) = {}
             /\ \E best_pos \in find_best_position(containers[k], heap[item]) :
                  LET r == place_item(containers[k], item,
                                      best_pos[1], best_pos[2], best_pos[3],
                                      best_pos[4], best_pos[5], best_pos[6])
                  IN  /\ containers' = [containers EXCEPT ![k] = r.c]
                      /\ place_result' = r.ret
    /\ NextItem
    /\ UNCHANGED vars1d
    /\ UNCHANGED <<args, heap, sorted_items, packable_items, unpacked_items>>

\* lines 320-341, one iteration in which no existing container yields a
\* position: a new container is tried, and kept only if it takes the item.
OpenNewContainer ==
    /\ variant = "improved"
    /\ pc = "pack"
    /\ LET item == packable_items[idx]
           new_container == Container3D(container_l, container_w,
                                        container_h, max_weight)
           found == find_best_position(new_container, heap[item])
       IN  /\ \A j \in 1..Len(containers) :
                  find_best_position(containers[j], heap[item]) = {}
           /\ IF found /= {}
              THEN \E best_pos \in found :
                     LET r == place_item(new_container, item,
                                         best_pos[1], best_pos[2], best_pos[3],
                                         best_pos[4], best_pos[5], best_pos[6])
                     IN  /\ containers' = Append(containers, r.c)
                         /\ place_result' = r.ret
                         /\ unpacked_items' = unpacked_items
              ELSE /\ unpacked_items' = Append(unpacked_items, item)
                   /\ UNCHANGED <<containers, place_result>>
    /\ NextItem
    /\ UNCHANGED vars1d
    /\ UNCHANGED <<args, heap, sorted_items, packable_items>>

Next ==
    \/ SortItems
    \/ PreFilter
    \/ PlaceInExisting
    \/ OpenNewContainer

Spec == Init /\ [][Next]_vars

(***************************************************************************)
(* advanced_3d_packing                                                     *)
(***************************************************************************)
\* line 238
AdvSortItems ==
    /\ variant = "advanced"
    /\ pc = "sort"
    /\ sorted_items' = SortedByVolume(items)
    /\ idx' = 1
    /\ pc' = IF Len(items) = 0 THEN "done" ELSE "filter"
    /\ UNCHANGED vars1d
    /\ UNCHANGED <<args, heap, packable_items, unpacked_items, containers,
                   place_result>>

\* lines 245-257, one iteration of the pre-filter loop
AdvPreFilter ==
    /\ variant = "advanced"
    /\ pc = "filter"
    /\ LET item == sorted_items[idx]
           fits == \E rot \in 0..((IF allow_rotation THEN 6 ELSE 1) - 1) :
                      LET d == get_dimensions(heap[item], rot)
                      IN  /\ d[1] <= container_l /\ d[2] <= container_w
                          /\ d[3] <= container_h
           keep == fits /\ LeqF(heap[item].weight, max_weight)
           pk == IF keep THEN Append(packable_items, item) ELSE packable_items
       IN  /\ packable_items' = pk
           /\ unpacked_items' = IF keep THEN unpacked_items
                                ELSE Append(unpacked_items, item)
           /\ IF idx < Len(sorted_items)
              THEN idx' = idx + 1 /\ pc' = "filter"
              ELSE idx' = 1 /\ pc' = IF pk = <<>> THEN "done" ELSE "pack"
    /\ UNCHANGED vars1d
    /\ UNCHANGED <<args, heap, sorted_items, containers, place_result>>

\* lines 262-281, one iteration of the packing loop: the first existing
\* container with a position takes the item, else a new container is tried.
AdvPackItem ==
    /\ variant = "advanced"
    /\ pc = "pack"
    /\ LET item == packable_items[idx]
           hit == {k \in 1..Len(containers) :
                     adv_find_best_position(heap, containers[k], heap[item])
                       /= None}
           new_container == Container3D(container_l, container_w,
                                        container_h, max_weight)
       IN  IF hit /= {}
           THEN LET k == CHOOSE m \in hit : \A o \in hit : m <= o
                    best_pos == adv_find_best_position(heap, containers[k],
                                                       heap[item])
                    r == adv_place_item(heap, containers[k], item,
                                        best_pos[1], best_pos[2], best_pos[3],
                                        best_pos[4])
                IN  /\ containers' = [containers EXCEPT ![k] = r.c]
                    /\ heap' = r.heap
                    /\ place_result' = r.ret
                    /\ unpacked_items' = unpacked_items
           ELSE LET best_pos == adv_find_best_position(heap, new_container,
                                                       heap[item])
                    r == adv_place_item(heap, new_container, item,
                                        best_pos[1], best_pos[2], best_pos[3],
                                        best_pos[4])
                IN  IF best_pos /= None
                    THEN /\ containers' = Append(containers, r.c)
                         /\ heap' = r.heap
                         /\ place_result' = r.ret
                         /\ unpacked_items' = unpacked_items
                    ELSE /\ unpacked_items' = Append(unpacked_items, item)
                         /\ UNCHANGED <<containers, heap, place_result>>
    /\ NextItem
    /\ UNCHANGED vars1d
    /\ UNCHANGED <<args, sorted_items, packable_items>>

InitBoth == InitOf("improved") \/ InitOf("advanced")

NextBoth ==
    \/ SortItems
    \/ PreFilter
    \/ PlaceInExisting
    \/ OpenNewContainer
    \/ AdvSortItems
    \/ AdvPreFilter
    \/ AdvPackItem

\* a call that leaves max_weight and allow_rotation at their defaults
InitDefaults == Init /\ max_weight = Inf /\ allow_rotation = TRUE

\* improved_3d_packing runs as long as it has a statement to execute
FairSpec == InitDefaults /\ [][Next]_vars /\ WF_vars(Next)

\* The calls of the worked examples: up to MaxCopies equal items, possibly
\* followed by one item that is rejected.
MaxCopies == 10

ScenarioKinds == {<< <<10, 10, 10>>, 1 >>, << <<50, 50, 50>>, 1 >>,
                  << <<30, 20, 10>>, 5 >>, << <<100, 100, 100>>, 1 >>,
                  << <<30, 20, 10>>, 60 >>}
\* the kinds no container takes: too large, or heavier than 50
ScenarioRejects == {<< <<100, 100, 100>>, 1 >>, << <<30, 20, 10>>, 60 >>}
ScenarioContainers == {<<20, 20, 20>>, <<50, 50, 100>>, <<40, 40, 40>>,
                       <<50, 50, 50>>, <<10, 20, 30>>}
ScenarioMaxWeights == {50, Inf}

InitScenario ==
    /\ variant = "improved"
    /\ \E a \in ScenarioKinds, n \in 1..MaxCopies,
          t \in {<<>>} \cup {<<b>> : b \in ScenarioRejects} :
         LET kinds == [i \in 1..n |-> a] \o t
         IN  /\ heap = [i \in 1..Len(kinds) |->
                           Item3D(i, kinds[i][1], kinds[i][2])]
             /\ items = [i \in 1..Len(kinds) |-> i]
    /\ \E s \in ScenarioContainers :
         /\ container_l = s[1]
         /\ container_w = s[2]
         /\ container_h = s[3]
    /\ max_weight \in ScenarioMaxWeights
    /\ allow_rotation \in BOOLEAN
    /\ sorted_items = <<>>
    /\ packable_items = <<>>
    /\ unpacked_items = <<>>
    /\ containers = <<>>
    /\ idx = 1
    /\ place_result = "not called"
    /\ pc = "sort"
    /\ Idle1D

SpecScenario == InitScenario /\ [][Next]_vars

\* Calls that fill a (3,3,3) container layer by layer with slabs, bars and
\* unit cubes: the smallest calls in which two candidate points reach the
\* same score.
MaxLayerItems == 5

LayerKinds == {<< <<3, 3, 1>>, 1 >>, << <<2, 1, 1>>, 1 >>,
               << <<1, 1, 1>>, 1 >>}

InitLayers ==
    /\ variant = "improved"
    /\ \E n \in 0..MaxLayerItems :
         /\ heap \in {[i \in 1..n |-> Item3D(i, k[i][1], k[i][2])] :
                        k \in [1..n -> LayerKinds]}
         /\ items = [i \in 1..n |-> i]
    /\ container_l = 3
    /\ container_w = 3
    /\ container_h = 3
    /\ max_weight = Inf
    /\ allow_rotation \in BOOLEAN
    /\ sorted_items = <<>>
    /\ packable_items = <<>>
    /\ unpacked_items = <<>>
    /\ containers = <<>>
    /\ idx = 1
    /\ place_result = "not called"
    /\ pc = "sort"
    /\ Idle1D

SpecLayers == InitLayers /\ [][Next]_vars

\* both drivers, one of them per run
SpecBoth == InitBoth /\ [][NextBoth]_vars

(***************************************************************************)
(* first_fit_decreasing and best_fit_decreasing                            *)
(*                                                                         *)
(* Items are plain numbers here (sizes), not objects.                      *)
(***************************************************************************)
MaxBinItems == 4
MaxSize == 5
BinCapacities == {4, 7}

\* sorted(items, reverse=True) on numbers
RECURSIVE InsertDesc(_, _)
InsertDesc(s, a) ==
    IF s = <<>> THEN <<a>>
    ELSE IF Head(s) >= a
         THEN <<Head(s)>> \o InsertDesc(Tail(s), a)
         ELSE <<a>> \o s

RECURSIVE SortedDesc(_)
SortedDesc(s) ==
    IF s = <<>> THEN <<>>
    ELSE InsertDesc(SortedDesc(SubSeq(s, 1, Len(s) - 1)), s[Len(s)])

\* [item for item in sorted_items if item > bin_capacity]
TooBig(s, cap) == SelectSeq(s, LAMBDA item : item > cap)

\* [item for item in sorted_items if item <= bin_capacity]
Packable(s, cap) == SelectSeq(s, LAMBDA item : item <= cap)

\* The arguments of one call of packer a, before its first statement.
InitBins(a) ==
    /\ bin_algo = a
    /\ \E n \in 0..MaxBinItems : bin_items \in [1..n -> 1..MaxSize]
    /\ bin_capacity \in BinCapacities
    /\ bin_sorted = <<>>
    /\ bin_unpacked = <<>>
    /\ bin_packable = <<>>
    /\ bins = <<>>
    /\ remaining_capacity = <<>>
    /\ bin_idx = 1
    /\ bin_pc = "sort"
    /\ Idle3D

\* the loop header of the packing loop: next item or return
NextBinItem ==
    IF bin_idx < Len(bin_packable)
    THEN bin_idx' = bin_idx + 1 /\ bin_pc' = "pack"
    ELSE bin_idx' = bin_idx /\ bin_pc' = "done"

\* first_fit_decreasing, lines 28-35
FfdSort ==
    /\ bin_algo = "ffd"
    /\ bin_pc = "sort"
    /\ bin_sorted' = SortedDesc(bin_items)
    /\ bin_unpacked' = TooBig(SortedDesc(bin_items), bin_capacity)
    /\ bin_packable' = Packable(SortedDesc(bin_items), bin_capacity)
    /\ bins' = <<>>
    /\ bin_idx' = 1
    /\ bin_pc' = IF Packable(SortedDesc(bin_items), bin_capacity) = <<>>
                 THEN "done" ELSE "pack"
    /\ UNCHANGED <<bin_algo, bin_items, bin_capacity, remaining_capacity>>
    /\ UNCHANGED vars3d

\* the inner loop without its break, keeping the last bin that has room
RECURSIVE first_fit_NoBreak(_, _, _, _)
first_fit_NoBreak(bs, item, cap, k) ==
    IF k > Len(bs) THEN 0
    ELSE IF first_fit_NoBreak(bs, item, cap, k + 1) /= 0
         THEN first_fit_NoBreak(bs, item, cap, k + 1)
         ELSE IF SumSeq(bs[k]) + item <= cap THEN k ELSE 0

\* the bin the inner loop of first_fit_decreasing stops at, 0 if none
\* (lines 42-46, from bin k on)
RECURSIVE first_fit(_, _, _, _)
first_fit(bs, item, cap, k) ==
    IF k > Len(bs) THEN 0
    ELSE IF SumSeq(bs[k]) + item <= cap THEN k
         ELSE first_fit(bs, item, cap, k + 1)

\* lines 38-46, one iteration that ends in an existing bin
FfdPlaceInBin ==
    /\ bin_algo = "ffd"
    /\ bin_pc = "pack"
    /\ LET item == bin_packable[bin_idx]
           k == first_fit(bins, item, bin_capacity, 1)
       IN  /\ k /= 0
           /\ bins' = [bins EXCEPT ![k] = Append(@, item)]
    /\ NextBinItem
    /\ UNCHANGED <<bin_algo, bin_items, bin_capacity, bin_sorted,
                   bin_unpacked, bin_packable, remaining_capacity>>
    /\ UNCHANGED vars3d

\* lines 38-50, one iteration that opens a new bin
FfdNewBin ==
    /\ bin_algo = "ffd"
    /\ bin_pc = "pack"
    /\ LET item == bin_packable[bin_idx]
       IN  /\ first_fit(bins, item, bin_capacity, 1) = 0
           /\ bins' = Append(bins, <<item>>)
    /\ NextBinItem
    /\ UNCHANGED <<bin_algo, bin_items, bin_capacity, bin_sorted,
                   bin_unpacked, bin_packable, remaining_capacity>>
    /\ UNCHANGED vars3d

InitFFD == InitBins("ffd")

NextFFD ==
    \/ FfdSort
    \/ FfdPlaceInBin
    \/ FfdNewBin

SpecFFD == InitFFD /\ [][NextFFD]_vars

\* best_fit_decreasing, lines 32-40
BfdSort ==
    /\ bin_algo = "bfd"
    /\ bin_pc = "sort"
    /\ bin_sorted' = SortedDesc(bin_items)
    /\ bin_unpacked' = TooBig(SortedDesc(bin_items), bin_capacity)
    /\ bin_packable' = Packable(SortedDesc(bin_items), bin_capacity)
    /\ bins' = <<>>
    /\ remaining_capacity' = <<>>
    /\ bin_idx' = 1
    /\ bin_pc' = IF Packable(SortedDesc(bin_items), bin_capacity) = <<>>
                 THEN "done" ELSE "pack"
    /\ UNCHANGED <<bin_algo, bin_items, bin_capacity>>
    /\ UNCHANGED vars3d

\* the scan with remaining - item <= min_remaining: the last of equally
\* tight bins wins
RECURSIVE best_fit_LastTie(_, _, _, _, _)
best_fit_LastTie(rc, item, i, best_bin_idx, min_remaining) ==
    IF i >= Len(rc) THEN best_bin_idx
    ELSE IF rc[i + 1] >= item /\ rc[i + 1] - item <= min_remaining
         THEN best_fit_LastTie(rc, item, i + 1, i, rc[i + 1] - item)
         ELSE best_fit_LastTie(rc, item, i + 1, best_bin_idx, min_remaining)

\* best_bin_idx after the scan of remaining_capacity from position i on
\* (lines 48-51); positions and the result are 0-based as in the source,
\* -1 meaning that no bin was found.
RECURSIVE best_fit(_, _, _, _, _)
best_fit(rc, item, i, best_bin_idx, min_remaining) ==
    IF i >= Len(rc) THEN best_bin_idx
    ELSE IF rc[i + 1] >= item /\ rc[i + 1] - item < min_remaining
         THEN best_fit(rc, item, i + 1, i, rc[i + 1] - item)
         ELSE best_fit(rc, item, i + 1, best_bin_idx, min_remaining)

\* lines 43-56, one iteration that ends in an existing bin
BfdPlaceInBin ==
    /\ bin_algo = "bfd"
    /\ bin_pc = "pack"
    /\ LET item == bin_packable[bin_idx]
           best_bin_idx == best_fit(remaining_capacity, item, 0, -1,
                                    bin_capacity)
       IN  /\ best_bin_idx /= -1
           /\ bins' = [bins EXCEPT ![best_bin_idx + 1] = Append(@, item)]
           /\ remaining_capacity' =
                 [remaining_capacity EXCEPT ![best_bin_idx + 1] = @ - item]
    /\ NextBinItem
    /\ UNCHANGED <<bin_algo, bin_items, bin_capacity, bin_sorted,
                   bin_unpacked, bin_packable>>
    /\ UNCHANGED vars3d

\* lines 43-59, one iteration that opens a new bin
BfdNewBin ==
    /\ bin_algo = "bfd"
    /\ bin_pc = "pack"
    /\ LET item == bin_packable[bin_idx]
       IN  /\ best_fit(remaining_capacity, item, 0, -1, bin_capacity) = -1
           /\ bins' = Append(bins, <<item>>)
           /\ remaining_capacity' =
                 Append(remaining_capacity, bin_capacity - item)
    /\ NextBinItem
    /\ UNCHANGED <<bin_algo, bin_items, bin_capacity, bin_sorted,
                   bin_unpacked, bin_packable>>
    /\ UNCHANGED vars3d

InitBFD == InitBins("bfd")

NextBFD ==
    \/ BfdSort
    \/ BfdPlaceInBin
    \/ BfdNewBin

SpecBFD == InitBFD /\ [][NextBFD]_vars

(***************************************************************************)
(* Properties                                                              *)
(***************************************************************************)
\* the addresses of the items held by container c, in placement order
ItemsOf(c) == [i \in 1..Len(c.placed_items) |-> c.placed_items[i].item]

\* how often address a occurs in the list s
Occurrences(s, a) == Cardinality({i \in 1..Len(s) : s[i] = a})

RECURSIVE PlacedOccurrences(_, _)
PlacedOccurrences(n, a) ==
    IF n = 0 THEN 0
    ELSE PlacedOccurrences(n - 1, a) + Occurrences(ItemsOf(containers[n]), a)

RECURSIVE PlacedCount(_)
PlacedCount(n) ==
    IF n = 0 THEN 0
    ELSE PlacedCount(n - 1) + Len(containers[n].placed_items)

\* the open boxes of two placed items intersect on all three axes
BoxesOverlap(a, b) ==
    /\ a.x < b.x + b.length /\ b.x < a.x + a.length
    /\ a.y < b.y + b.width  /\ b.y < a.y + a.width
    /\ a.z < b.z + b.height /\ b.z < a.z + a.height

\* two placed items share a face: they touch on one axis
BoxesTouch(a, b) ==
    \/ a.x + a.length = b.x \/ b.x + b.length = a.x
    \/ a.y + a.width = b.y  \/ b.y + b.width = a.y
    \/ a.z + a.height = b.z \/ b.z + b.height = a.z

\* C1: in every container of improved_3d_packing no two distinct placed
\* items overlap on all three axes at once (touching is allowed).
C1_NoOverlap ==
    \A k \in 1..Len(containers) :
        \A i, j \in 1..Len(containers[k].placed_items) :
            i < j => ~BoxesOverlap(containers[k].placed_items[i],
                                   containers[k].placed_items[j])

\* a container holds three items, two of which share a face
C1_Witness ==
    \E k \in 1..Len(containers) :
        /\ Len(containers[k].placed_items) >= 3
        /\ \E i, j \in 1..Len(containers[k].placed_items) :
              i < j /\ BoxesTouch(containers[k].placed_items[i],
                                  containers[k].placed_items[j])

\* C2: every placed item lies inside its container: x, y, z >= 0 and
\* x+l <= length, y+w <= width, z+h <= height.
C2_Containment ==
    \A k \in 1..Len(containers) :
        \A i \in 1..Len(containers[k].placed_items) :
            LET pi == containers[k].placed_items[i]
            IN  /\ pi.x >= 0 /\ pi.y >= 0 /\ pi.z >= 0
                /\ pi.x + pi.length <= containers[k].length
                /\ pi.y + pi.width <= containers[k].width
                /\ pi.z + pi.height <= containers[k].height

\* an item away from the origin reaches the far walls exactly
C2_Witness ==
    \E k \in 1..Len(containers) :
        \E i \in 1..Len(containers[k].placed_items) :
            LET pi == containers[k].placed_items[i]
            IN  /\ pi.x + pi.y + pi.z > 0
                /\ pi.x + pi.length = containers[k].length
                /\ pi.y + pi.width = containers[k].width
                /\ pi.z + pi.height = containers[k].height

\* C3: in every container the weights of the placed items sum to at most
\* the container's max_weight.
C3_WeightWithinCapacity ==
    \A k \in 1..Len(containers) :
        LeqF(used_weight(containers[k]), containers[k].max_weight)

\* C4: when improved_3d_packing returns, every input item occurs exactly
\* once, as the item of one placed item or as one entry of unpacked, and
\* the placed items plus the unpacked ones are as many as the input items.
C4_Conservation ==
    pc = "done" =>
        /\ \A a \in 1..Len(items) :
              PlacedOccurrences(Len(containers), items[a])
                + Occurrences(unpacked_items, items[a]) = 1
        /\ PlacedCount(Len(containers)) + Len(unpacked_items) = Len(items)

\* a finished run with two containers and an unpacked item
C4_Witness ==
    /\ pc = "done"
    /\ Len(containers) >= 2
    /\ PlacedCount(Len(containers)) >= 2
    /\ Len(unpacked_items) >= 1

\* C5: the dimensions of every placed item are one of the six
\* permutations of the base dimensions of its item.
C5_OrientationValid ==
    \A k \in 1..Len(containers) :
        \A i \in 1..Len(containers[k].placed_items) :
            LET pi == containers[k].placed_items[i]
                l == heap[pi.item].length
                w == heap[pi.item].width
                h == heap[pi.item].height
            IN  <<pi.length, pi.width, pi.height>> \in
                    {<<l, w, h>>, <<l, h, w>>, <<w, l, h>>,
                     <<w, h, l>>, <<h, l, w>>, <<h, w, l>>}

\* an item of three different extents along the axes was placed turned
C5_Witness ==
    \E k \in 1..Len(containers) :
        \E i \in 1..Len(containers[k].placed_items) :
            LET pi == containers[k].placed_items[i]
            IN  /\ pi.length /= heap[pi.item].length
                /\ pi.height /= heap[pi.item].height

\* C6: with allow_rotation = False every placed item keeps the base
\* dimensions of its item.
C6_NoRotationKeepsBase ==
    ~allow_rotation =>
        \A k \in 1..Len(containers) :
            \A i \in 1..Len(containers[k].placed_items) :
                LET pi == containers[k].placed_items[i]
                IN  /\ pi.length = heap[pi.item].length
                    /\ pi.width = heap[pi.item].width
                    /\ pi.height = heap[pi.item].height

\* the orientations the caller enabled for item a
EnabledOrientations(a) ==
    LET l == heap[a].length
        w == heap[a].width
        h == heap[a].height
    IN  IF allow_rotation
        THEN {<<l, w, h>>, <<l, h, w>>, <<w, l, h>>,
              <<w, h, l>>, <<h, l, w>>, <<h, w, l>>}
        ELSE {<<l, w, h>>}

\* no enabled orientation of item a fits the bare container
TooLarge(a) ==
    \A d \in EnabledOrientations(a) :
        d[1] > container_l \/ d[2] > container_w \/ d[3] > container_h

\* item a is heavier than max_weight
TooHeavy(a) == max_weight /= Inf /\ heap[a].weight > max_weight

\* C7: an item is in unpacked if and only if it is infeasible: no enabled
\* orientation fits the bare container, or its weight exceeds max_weight.
\* No feasible item is ever in unpacked, and at the return every
\* infeasible item is.
C7_UnpackedIffInfeasible ==
    /\ \A i \in 1..Len(unpacked_items) :
          TooLarge(unpacked_items[i]) \/ TooHeavy(unpacked_items[i])
    /\ pc = "done" =>
          \A a \in 1..Len(items) :
              (TooLarge(items[a]) \/ TooHeavy(items[a])) =>
                  \E i \in 1..Len(unpacked_items) : unpacked_items[i] = items[a]

\* a finished run that filled a container and left out one item for its
\* size alone and another for its weight alone
C7_Witness ==
    /\ pc = "done"
    /\ Len(containers) >= 1
    /\ \E i, j \in 1..Len(unpacked_items) :
          /\ TooLarge(unpacked_items[i]) /\ ~TooHeavy(unpacked_items[i])
          /\ TooHeavy(unpacked_items[j]) /\ ~TooLarge(unpacked_items[j])

\* container k received an item in the step
ReceivedItem(k) ==
    \/ k > Len(containers)
    \/ /\ k <= Len(containers)
       /\ containers'[k] /= containers[k]

\* C8: first fit.  When a step places the current item into container k,
\* no container before k had a feasible (point, orientation) pair for it;
\* a new container comes only when no existing one had such a pair, and
\* it is appended behind the existing ones, which stay as they were.
C8_FirstFit ==
    [][/\ \A k \in 1..Len(containers') :
             ReceivedItem(k) =>
                 \A j \in 1..Len(containers) :
                     j < k => FeasiblePairs(containers[j],
                                            heap[packable_items[idx]]) = {}
       /\ Len(containers') /= Len(containers) =>
             /\ Len(containers') = Len(containers) + 1
             /\ SubSeq(containers', 1, Len(containers)) = containers
      ]_vars

\* the second container took a second item
C8_Witness ==
    /\ Len(containers) >= 2
    /\ Len(containers[2].placed_items) >= 2

\* C9: containers only grow.  No step shortens the container list, and
\* every container's placed_items before the step is a prefix of its
\* placed_items after it, so recorded positions and dimensions stay.
C9_ContainersOnlyGrow ==
    [][/\ Len(containers') >= Len(containers)
       /\ \A k \in 1..Len(containers) :
             /\ Len(containers'[k].placed_items)
                  >= Len(containers[k].placed_items)
             /\ SubSeq(containers'[k].placed_items, 1,
                       Len(containers[k].placed_items))
                  = containers[k].placed_items
             /\ containers'[k].length = containers[k].length
             /\ containers'[k].width = containers[k].width
             /\ containers'[k].height = containers[k].height
      ]_vars

\* the first container took a second item after a second container was
\* opened or before
C9_Witness ==
    /\ Len(containers) >= 2
    /\ Len(containers[1].placed_items) >= 2

\* C10 as stated: no step of either driver changes any field of an item.
C10_ItemsNeverMutated == [][heap' = heap]_vars

\* the step appended a PlacedItem for item a to some container, and the
\* item carries that PlacedItem's position and rotation afterwards
PlacementWrittenOn(a) ==
    \E k \in 1..Len(containers') :
        LET n == Len(containers'[k].placed_items)
            m == IF k <= Len(containers)
                 THEN Len(containers[k].placed_items) ELSE 0
        IN  /\ n = m + 1
            /\ containers'[k].placed_items[n].item = a
            /\ heap'[a].position = <<containers'[k].placed_items[n].x,
                                     containers'[k].placed_items[n].y,
                                     containers'[k].placed_items[n].z>>
            /\ heap'[a].rotation = containers'[k].placed_items[n].rotation

\* C10, amended: no step changes the name, length, width, height or
\* weight of an item; improved_3d_packing changes no field of an item at
\* all; advanced_3d_packing changes an item only when it places it, and
\* then writes the position and rotation of the new PlacedItem onto it.
C10_ItemFieldsKept ==
    [][\A a \in DOMAIN heap :
          /\ heap'[a].name = heap[a].name
          /\ heap'[a].length = heap[a].length
          /\ heap'[a].width = heap[a].width
          /\ heap'[a].height = heap[a].height
          /\ heap'[a].weight = heap[a].weight
          /\ variant = "improved" => heap'[a] = heap[a]
          /\ (variant = "advanced" /\ heap'[a] /= heap[a]) =>
                PlacementWrittenOn(a)
      ]_vars

\* the advanced driver has placed an item turned, and the item carries
\* the position and the rotation
C10_Witness ==
    /\ variant = "advanced"
    /\ \E k \in 1..Len(containers) :
          \E i \in 1..Len(containers[k].placed_items) :
              LET pi == containers[k].placed_items[i]
              IN  /\ pi.rotation /= 0
                  /\ heap[pi.item].position = <<pi.x, pi.y, pi.z>>
                  /\ heap[pi.item].rotation = pi.rotation

\* item address a is the item of some PlacedItem
IsPlaced(a) ==
    \E k \in 1..Len(containers) :
        \E i \in 1..Len(containers[k].placed_items) :
            containers[k].placed_items[i].item = a

\* item address a is an entry of unpacked_items
IsUnpacked(a) == \E i \in 1..Len(unpacked_items) : unpacked_items[i] = a

\* C12: improved_3d_packing terminates: it reaches its return with every
\* item placed or unpacked; every iteration of the pre-filter loop and of
\* the packing loop moves on to the next item of its list, so that no
\* item is examined twice, and nothing runs after the return.
C12_Terminates ==
    /\ <>(pc = "done" /\ \A a \in 1..Len(items) :
                             IsPlaced(items[a]) \/ IsUnpacked(items[a]))
    /\ [][/\ (pc = "filter" /\ pc' = "filter") => idx' = idx + 1
          /\ (pc = "pack" /\ pc' = "pack") => idx' = idx + 1
          /\ pc = "filter" => idx = Len(packable_items)
                                      + Len(unpacked_items) + 1
          /\ pc /= "done"
         ]_vars

\* the run returned after the packing loop went through three items
C12_Witness ==
    /\ pc = "done"
    /\ Len(packable_items) = 3
    /\ idx = 3

\* the position of item address a in the input list
InputPosition(a) == CHOOSE i \in 1..Len(items) : items[i] = a

\* a is processed before b: larger volume, or equal volume and earlier in
\* the input
GoesBefore(a, b) ==
    LET va == heap[a].length * heap[a].width * heap[a].height
        vb == heap[b].length * heap[b].width * heap[b].height
    IN  va > vb \/ (va = vb /\ InputPosition(a) < InputPosition(b))

\* C13: items are processed in non-increasing volume order, items of
\* equal volume in input order: sorted_items holds every input item once
\* in that order, and the pre-filter and the packing loop (which walk
\* sorted_items and packable_items by idx) keep it.
C13_VolumeOrderStable ==
    pc /= "sort" =>
        /\ Len(sorted_items) = Len(items)
        /\ \A a \in 1..Len(items) : Occurrences(sorted_items, items[a]) = 1
        /\ \A i, j \in 1..Len(sorted_items) :
              i < j => GoesBefore(sorted_items[i], sorted_items[j])
        /\ \A i, j \in 1..Len(packable_items) :
              i < j => GoesBefore(packable_items[i], packable_items[j])

\* the packing loop runs over three items that the sort reordered, two of
\* them of equal volume
C13_Witness ==
    /\ pc = "pack"
    /\ Len(packable_items) = 3
    /\ \E i, j \in 1..3 : i < j /\ packable_items[i] > packable_items[j]
    /\ \E i, j \in 1..3 :
          i < j /\ volume(heap[packable_items[i]])
                     = volume(heap[packable_items[j]])

\* the call has n items, all of shape d, and containers of shape s
CallIs(n, d, s) ==
    /\ Len(items) = n
    /\ \A a \in 1..n : /\ heap[items[a]].length = d[1]
                       /\ heap[items[a]].width = d[2]
                       /\ heap[items[a]].height = d[3]
    /\ <<container_l, container_w, container_h>> = s

\* the anchors of the items placed in container c
Anchors(c) ==
    {<<c.placed_items[i].x, c.placed_items[i].y, c.placed_items[i].z>> :
        i \in 1..Len(c.placed_items)}

\* C14: ten (10,10,10) items into (20,20,20) containers give exactly two
\* containers; the first holds eight items on the 2x2x2 grid of anchors
\* with coordinates 0 or 10, four at z = 0 and four at z = 10; the second
\* holds the other two; unpacked is empty.
C14_TenCubes ==
    (pc = "done" /\ CallIs(10, <<10, 10, 10>>, <<20, 20, 20>>)) =>
        /\ Len(containers) = 2
        /\ Len(containers[1].placed_items) = 8
        /\ Anchors(containers[1]) = {0, 10} \X {0, 10} \X {0, 10}
        /\ Cardinality({i \in 1..8 : containers[1].placed_items[i].z = 0}) = 4
        /\ Cardinality({i \in 1..8 : containers[1].placed_items[i].z = 10}) = 4
        /\ Len(containers[2].placed_items) = 2
        /\ unpacked_items = <<>>

\* the run on the ten cubes has returned
C14_Witness ==
    /\ pc = "done"
    /\ CallIs(10, <<10, 10, 10>>, <<20, 20, 20>>)
    /\ Len(containers) = 2

\* C15: two (50,50,50) items into (50,50,100) containers give exactly one
\* container holding both, the first anchored at (0,0,0) and the second at
\* (0,0,50); unpacked is empty.
C15_TwoStacked ==
    (pc = "done" /\ CallIs(2, <<50, 50, 50>>, <<50, 50, 100>>)) =>
        /\ Len(containers) = 1
        /\ Len(containers[1].placed_items) = 2
        /\ LET p == containers[1].placed_items
           IN  /\ <<p[1].x, p[1].y, p[1].z>> = <<0, 0, 0>>
               /\ <<p[2].x, p[2].y, p[2].z>> = <<0, 0, 50>>
               /\ p[1].item /= p[2].item
        /\ unpacked_items = <<>>

\* the run on the two half-height cubes has returned
C15_Witness ==
    /\ pc = "done"
    /\ CallIs(2, <<50, 50, 50>>, <<50, 50, 100>>)
    /\ containers /= <<>>

\* the six orientations of item a, in the order they are tried
OrientationList(a) ==
    LET l == heap[a].length
        w == heap[a].width
        h == heap[a].height
    IN  << <<l, w, h>>, <<l, h, w>>, <<w, l, h>>,
           <<w, h, l>>, <<h, l, w>>, <<h, w, l>> >>

\* orientation d fits the bare container
FitsBare(d) == d[1] <= container_l /\ d[2] <= container_w /\ d[3] <= container_h

\* the volume taken by the items placed in container c
VolumeIn(c) ==
    SumSeq([i \in 1..Len(c.placed_items) |->
               c.placed_items[i].length * c.placed_items[i].width
                   * c.placed_items[i].height])

\* C16: the first item of every container is anchored at (0,0,0) in the
\* lowest-index orientation that fits the bare container, so in its base
\* orientation when that fits; a single (30,20,10) item in a (40,40,40)
\* container gives one container, the item at (0,0,0) as (30,20,10), and a
\* used volume of 6000 out of 64000.
C16_FirstItemAtOrigin ==
    /\ \A k \in 1..Len(containers) :
         LET p == containers[k].placed_items[1]
             o == OrientationList(p.item)
         IN  /\ <<p.x, p.y, p.z>> = <<0, 0, 0>>
             /\ \E r \in 1..6 :
                  /\ FitsBare(o[r])
                  /\ \A q \in 1..(r - 1) : ~FitsBare(o[q])
                  /\ <<p.length, p.width, p.height>> = o[r]
             /\ FitsBare(o[1]) => <<p.length, p.width, p.height>> = o[1]
    /\ (pc = "done" /\ CallIs(1, <<30, 20, 10>>, <<40, 40, 40>>)
           /\ ~TooHeavy(items[1])) =>
         /\ Len(containers) = 1
         /\ Len(containers[1].placed_items) = 1
         /\ LET p == containers[1].placed_items[1]
            IN  /\ p.item = items[1]
                /\ <<p.x, p.y, p.z>> = <<0, 0, 0>>
                /\ <<p.length, p.width, p.height>> = <<30, 20, 10>>
         /\ VolumeIn(containers[1]) = 6000
         /\ container_l * container_w * container_h = 64000

\* the single (30,20,10) item has been packed into a (40,40,40) container
C16_Witness ==
    /\ pc = "done"
    /\ CallIs(1, <<30, 20, 10>>, <<40, 40, 40>>)
    /\ ~TooHeavy(items[1])
    /\ containers /= <<>>

\* C17: an item the pre-filter rejects (too large in every enabled
\* orientation, or heavier than max_weight) is in unpacked at the return
\* and in no container; every container holds at least one PlacedItem, there
\* are never more containers than accepted items, and a run whose items
\* are all rejected returns no container.
C17_RejectedOpensNothing ==
    /\ \A k \in 1..Len(containers) : Len(containers[k].placed_items) >= 1
    /\ Len(containers) <=
           Cardinality({a \in 1..Len(items) :
                           ~TooLarge(items[a]) /\ ~TooHeavy(items[a])})
    /\ \A a \in 1..Len(items) :
         (TooLarge(items[a]) \/ TooHeavy(items[a])) =>
             /\ ~IsPlaced(items[a])
             /\ pc = "done" => Occurrences(unpacked_items, items[a]) = 1
    /\ (\A a \in 1..Len(items) : TooLarge(items[a]) \/ TooHeavy(items[a])) =>
           containers = <<>>

\* a run in which one item was too large and another too heavy has returned
\* with nothing but rejected items
C17_Witness ==
    /\ pc = "done"
    /\ containers = <<>>
    /\ \E a \in 1..Len(items) :
         /\ heap[items[a]].length = 100
         /\ <<container_l, container_w, container_h>> = <<50, 50, 50>>
         /\ TooLarge(items[a]) /\ ~TooHeavy(items[a]) /\ IsUnpacked(items[a])
    /\ \E a \in 1..Len(items) :
         /\ heap[items[a]].weight = 60 /\ max_weight = 50
         /\ TooHeavy(items[a]) /\ ~TooLarge(items[a]) /\ IsUnpacked(items[a])

\* how often size v occurs in the bins
InBins(v) == SumSeq([k \in 1..Len(bins) |-> Occurrences(bins[k], v)])

\* s is in decreasing order
Decreasing(s) == \A i, j \in 1..Len(s) : i < j => s[i] >= s[j]

\* the bins with room for one more item of size v
WithRoom(v) == {k \in 1..Len(bins) : SumSeq(bins[k]) + v <= bin_capacity}

\* the item of the current iteration of the packing loop
CurrentItem == bin_packable[bin_idx]

\* C18: first_fit_decreasing takes the items in decreasing size order and
\* puts each item of size <= bin_capacity into the lowest-index bin whose
\* total plus the item does not exceed bin_capacity, opening a new bin only
\* when no bin has room; every bin's total is <= bin_capacity, the items
\* larger than bin_capacity are exactly the unpacked ones, and at the
\* return every input item is exactly once in a bin or in unpacked.
C18_FirstFitDecreasing ==
    /\ [](bin_pc /= "sort" =>
            /\ Decreasing(bin_sorted)
            /\ Decreasing(bin_packable)
            /\ \A v \in 1..(MaxSize + 1) :
                 /\ Occurrences(bin_sorted, v) = Occurrences(bin_items, v)
                 /\ Occurrences(bin_unpacked, v) =
                        IF v > bin_capacity THEN Occurrences(bin_items, v)
                        ELSE 0
                 /\ Occurrences(bin_packable, v) =
                        IF v <= bin_capacity THEN Occurrences(bin_items, v)
                        ELSE 0
                 /\ bin_pc = "done" =>
                        InBins(v) + Occurrences(bin_unpacked, v)
                            = Occurrences(bin_items, v)
            /\ \A k \in 1..Len(bins) :
                 bins[k] /= <<>> /\ SumSeq(bins[k]) <= bin_capacity)
    /\ [][bin_pc = "pack" =>
            /\ IF WithRoom(CurrentItem) = {}
               THEN bins' = Append(bins, <<CurrentItem>>)
               ELSE \E k \in WithRoom(CurrentItem) :
                       /\ \A j \in WithRoom(CurrentItem) : k <= j
                       /\ bins' = [bins EXCEPT ![k] = Append(@, CurrentItem)]
            /\ IF bin_idx < Len(bin_packable)
               THEN bin_pc' = "pack" /\ bin_idx' = bin_idx + 1
               ELSE bin_pc' = "done"
         ]_vars

\* first_fit_decreasing has returned bins of which the second took an item
\* that no longer fitted into the first, and an item that was too large
C18_Witness ==
    /\ bin_algo = "ffd"
    /\ bin_pc = "done"
    /\ Len(bins) >= 2
    /\ Len(bins[1]) >= 2
    /\ bin_unpacked /= <<>>

\* the bins that can hold one more item of size v, by remaining capacity
CanHold(v) == {k \in 1..Len(bins) : bin_capacity - SumSeq(bins[k]) >= v}

\* the space left in bin k once an item of size v is added to it
LeftAfter(k, v) == bin_capacity - SumSeq(bins[k]) - v

\* C19: best_fit_decreasing puts each item (positive, <= bin_capacity, in
\* decreasing order) into the bin that can hold it and has the least space
\* left after the placement, the lowest index among equally tight bins, and
\* opens a new bin if and only if no bin can hold the item; each bin's
\* remaining_capacity is bin_capacity minus the sum of its items and is
\* never negative.
C19_BestFitDecreasing ==
    /\ [](/\ Len(remaining_capacity) = Len(bins)
          /\ \A k \in 1..Len(bins) :
               /\ remaining_capacity[k] = bin_capacity - SumSeq(bins[k])
               /\ remaining_capacity[k] >= 0
          /\ Decreasing(bin_packable)
          /\ \A i \in 1..Len(bin_packable) :
               bin_packable[i] > 0 /\ bin_packable[i] <= bin_capacity)
    /\ [][bin_pc = "pack" =>
            /\ (Len(bins') = Len(bins) + 1) <=> (CanHold(CurrentItem) = {})
            /\ IF CanHold(CurrentItem) = {}
               THEN bins' = Append(bins, <<CurrentItem>>)
               ELSE \E k \in CanHold(CurrentItem) :
                       /\ \A j \in CanHold(CurrentItem) :
                            \/ LeftAfter(k, CurrentItem)
                                   < LeftAfter(j, CurrentItem)
                            \/ /\ LeftAfter(k, CurrentItem)
                                      = LeftAfter(j, CurrentItem)
                               /\ k <= j
                       /\ bins' = [bins EXCEPT ![k] = Append(@, CurrentItem)]
         ]_vars

\* best_fit_decreasing has returned, and a bin took as its last item one
\* that an earlier, less tight bin could hold as well
C19_Witness ==
    /\ bin_algo = "bfd"
    /\ bin_pc = "done"
    /\ \E j \in 1..Len(bins) : \E k \in 1..(j - 1) :
         /\ Len(bins[j]) >= 2
         /\ SumSeq(bins[k]) + bins[j][Len(bins[j])] <= bin_capacity

\* the candidate points of container c: the origin and the eight corners
\* of every placed box
CandidatePoints(c) ==
    {<<0, 0, 0>>} \cup
    UNION {{p.x, p.x + p.length} \X {p.y, p.y + p.width}
               \X {p.z, p.z + p.height} :
           p \in {c.placed_items[i] : i \in 1..Len(c.placed_items)}}

\* the orientations of an item record
OrientationsOf(it) ==
    {<<it.length, it.width, it.height>>, <<it.length, it.height, it.width>>,
     <<it.width, it.length, it.height>>, <<it.width, it.height, it.length>>,
     <<it.height, it.length, it.width>>, <<it.height, it.width, it.length>>}

\* the box of an item anchored at p in orientation d
BoxAt(it, p, d) ==
    [item |-> it, x |-> p[1], y |-> p[2], z |-> p[3],
     length |-> d[1], width |-> d[2], height |-> d[3]]

\* the pair (p, d) passes can_place in container c: inside the walls and
\* overlapping no placed box
PassesCanPlace(c, p, d) ==
    /\ p[1] + d[1] <= c.length
    /\ p[2] + d[2] <= c.width
    /\ p[3] + d[3] <= c.height
    /\ \A i \in 1..Len(c.placed_items) :
         ~BoxesOverlap(BoxAt(0, p, d), c.placed_items[i])

\* the box of the pair (p, d) touches a wall of container c
TouchesWall(c, p, d) ==
    \/ p[1] = 0 \/ p[1] + d[1] = c.length
    \/ p[2] = 0 \/ p[2] + d[2] = c.width
    \/ p[3] = 0 \/ p[3] + d[3] = c.height

\* the score of the pair (p, d) in container c
WantedScore(c, p, d) ==
    p[3] * (c.length * c.width) + p[2] * c.length + p[1]
        - (IF TouchesWall(c, p, d) THEN 1 ELSE 0)

\* the feasible pairs of item record it in container c
Feasible(c, it) ==
    {pd \in CandidatePoints(c) \X OrientationsOf(it) :
        PassesCanPlace(c, pd[1], pd[2])}

\* find_best_position(it) on container c keeps its contract
KeepsContract(c, it) ==
    LET R == find_best_position(c, it)
        F == Feasible(c, it)
    IN  /\ (R = {}) <=> (F = {})
        /\ \A r \in R :
             /\ << <<r[1], r[2], r[3]>>, <<r[4], r[5], r[6]>> >> \in F
             /\ \A pd \in F :
                  WantedScore(c, <<r[1], r[2], r[3]>>, <<r[4], r[5], r[6]>>)
                      <= WantedScore(c, pd[1], pd[2])

\* the containers the packing loop can call find_best_position on for the
\* current item: the existing ones and a new, empty one
CallableContainers ==
    {containers[k] : k \in 1..Len(containers)}
        \cup {Container3D(container_l, container_w, container_h, max_weight)}

CurrentItem3D == heap[packable_items[idx]]

\* the candidate points of c at which some orientation of it is feasible
FeasiblePoints(c, it) == {pd[1] : pd \in Feasible(c, it)}

\* point p comes before point q when z, then y, then x are compared
LexLess(p, q) ==
    \/ p[3] < q[3]
    \/ p[3] = q[3] /\ p[2] < q[2]
    \/ p[3] = q[3] /\ p[2] = q[2] /\ p[1] < q[1]

\* the first of the feasible points of it in c, by z, then y, then x
LowestPoint(c, it) ==
    CHOOSE m \in FeasiblePoints(c, it) :
        \A p \in FeasiblePoints(c, it) : p = m \/ LexLess(m, p)

TiedPairs(c) ==
    LET o == OrientationList(packable_items[idx])
        F == Feasible(c, CurrentItem3D)
    IN  {qp \in (1..6) \X CandidatePoints(c) :
            /\ <<qp[2], o[qp[1]]>> \in F
            /\ \A pd \in F : WantedScore(c, qp[2], o[qp[1]])
                                 <= WantedScore(c, pd[1], pd[2])}

BoxesInside(c) ==
    {pd \in ((0..(c.length - 1)) \X (0..(c.width - 1)) \X (0..(c.height - 1)))
              \X ((1..c.length) \X (1..c.width) \X (1..c.height)) :
        /\ pd[1][1] + pd[2][1] <= c.length
        /\ pd[1][2] + pd[2][2] <= c.width
        /\ pd[1][3] + pd[2][3] <= c.height}

\* the feasible placements in c of the items of the call
FeasibleOfAny(c) ==
    UNION {Feasible(c, heap[items[a]]) : a \in 1..Len(items)}

\* within B, a placement with the lower z has the lower score
\* (compared through the set of <<z, score>> of the placements of B)
ZDominates(c, B) ==
    \A zs \in {{<<pd[1][3], Score(c, pd[1], pd[2])>> : pd \in B}} :
        \A a \in zs : \A b \in zs : a[1] < b[1] => a[2] < b[2]

\* C23: in the placement score a change in z dominates x and y: of two
\* feasible placements of boxes with positive integer dimensions in the
\* same container, the one with the lower z has the strictly lower score,
\* whatever their x and y and whether or not either gets the wall bonus.
\* Checked for all boxes inside the walls of the bare container, and for
\* the feasible placements of every container of the run.
C23_ZDominates ==
    /\ pc = "sort" =>
           ZDominates(Container3D(container_l, container_w, container_h,
                                  max_weight),
                      BoxesInside(Container3D(container_l, container_w,
                                              container_h, max_weight)))
    /\ pc = "pack" =>
           \A c \in CallableContainers : ZDominates(c, FeasibleOfAny(c))

\* a container of the run has a feasible placement that touches no wall
\* below a feasible placement that touches one
C23_Witness ==
    /\ pc = "pack"
    /\ \E c \in CallableContainers :
         \E pd, qe \in FeasibleOfAny(c) :
            /\ pd[1][3] < qe[1][3]
            /\ ~TouchesWall(c, pd[1], pd[2])
            /\ TouchesWall(c, qe[1], qe[2])

BoxesAround(c) ==
    ((0..c.length) \X (0..c.width) \X (0..c.height))
        \X ((1..c.length) \X (1..c.width) \X (1..c.height))

\* C25: can_place(l, w, h, x, y, z) is True exactly when x+l <= length,
\* y+w <= width, z+h <= height and the new box fails the strict overlap
\* test against every PlacedItem on at least one axis; a box that reaches a
\* wall exactly and a box that shares a face with a placed box are
\* accepted.
C25_CanPlaceExact ==
    \A c \in CallableContainers :
        \A pd \in BoxesAround(c) :
            can_place(c, pd[2][1], pd[2][2], pd[2][3],
                         pd[1][1], pd[1][2], pd[1][3])
                <=> /\ pd[1][1] + pd[2][1] <= c.length
                    /\ pd[1][2] + pd[2][2] <= c.width
                    /\ pd[1][3] + pd[2][3] <= c.height
                    /\ \A i \in 1..Len(c.placed_items) :
                         LET o == c.placed_items[i]
                         IN  \/ ~(pd[1][1] < o.x + o.length
                                    /\ pd[1][1] + pd[2][1] > o.x)
                             \/ ~(pd[1][2] < o.y + o.width
                                    /\ pd[1][2] + pd[2][2] > o.y)
                             \/ ~(pd[1][3] < o.z + o.height
                                    /\ pd[1][3] + pd[2][3] > o.z)

\* can_place accepts a box that reaches a wall exactly and shares a face
\* with a placed box, and rejects a box that overlaps a placed box
C25_Witness ==
    \E k \in 1..Len(containers) :
        LET c == containers[k]
        IN  /\ \E pd \in BoxesAround(c) :
                 /\ can_place(c, pd[2][1], pd[2][2], pd[2][3],
                                 pd[1][1], pd[1][2], pd[1][3])
                 /\ pd[1][1] + pd[2][1] = c.length
                 /\ \E i \in 1..Len(c.placed_items) :
                      pd[1][1] = c.placed_items[i].x
                                     + c.placed_items[i].length
            /\ \E pd \in BoxesAround(c) :
                 /\ ~can_place(c, pd[2][1], pd[2][2], pd[2][3],
                                  pd[1][1], pd[1][2], pd[1][3])
                 /\ pd[1][1] + pd[2][1] <= c.length
                 /\ pd[1][2] + pd[2][2] <= c.width
                 /\ pd[1][3] + pd[2][3] <= c.height

\* a new, empty container of the call
BareContainer ==
    Container3D(container_l, container_w, container_h, max_weight)

\* C27: for every item that passed the pre-filter the placement attempt in
\* a new, empty container succeeds, so the packing loop never appends an
\* item to unpacked, with allow_rotation on or off.
C27_NewContainerTakesItem ==
    /\ [](\A a \in 1..Len(packable_items) :
             /\ find_best_position(BareContainer, heap[packable_items[a]])
                    /= {}
             /\ \E d \in OrientationsOf(heap[packable_items[a]]) :
                    PassesCanPlace(BareContainer, <<0, 0, 0>>, d))
    /\ [][pc = "pack" =>
             /\ unpacked_items' = unpacked_items
             /\ Len(containers') = Len(containers)
                    \/ /\ Len(containers') = Len(containers) + 1
                       /\ containers'[Len(containers')].placed_items[1].item
                              = packable_items[idx]
         ]_vars

\* a new container was opened for an item that passed the pre-filter only
\* in an orientation other than its base orientation
C27_Witness ==
    /\ allow_rotation
    /\ \E k \in 1..Len(containers) :
         LET p == containers[k].placed_items[1]
         IN  /\ ~FitsBare(OrientationList(p.item)[1])
             /\ <<p.x, p.y, p.z>> = <<0, 0, 0>>
    /\ pc = "done"

\* how many PlacedItems of the containers cs hold item a
PlacedIn(cs, a) ==
    SumSeq([k \in 1..Len(cs) |-> Occurrences(ItemsOf(cs[k]), a)])

\* C28: place_item called with a position that passes can_place returns
\* True and appends exactly one PlacedItem, and this is the only way the
\* driver calls it: every call it makes returns True, and the item of each
\* iteration of the packing loop is in exactly one more PlacedItem
\* afterwards.  Called with a box that fails can_place, place_item
\* returns False and leaves placed_items as it was.
C28_PlaceItemSucceeds ==
    /\ [](/\ place_result \in {"not called", "True"}
          /\ \A c \in CallableContainers :
               \A pd \in BoxesAround(c) :
                  LET r == place_item(c, 0, pd[1][1], pd[1][2], pd[1][3],
                                      pd[2][1], pd[2][2], pd[2][3])
                  IN  IF PassesCanPlace(c, pd[1], pd[2])
                      THEN /\ r.ret = "True"
                           /\ r.c.placed_items
                                = Append(c.placed_items, BoxAt(0, pd[1], pd[2]))
                      ELSE /\ r.ret = "False"
                           /\ r.c = c)
    /\ [][pc = "pack" =>
             /\ place_result' = "True"
             /\ PlacedIn(containers, packable_items[idx]) = 0
             /\ PlacedIn(containers', packable_items[idx]) = 1
         ]_vars

\* the driver has called place_item on an existing container and on a new
\* one, and a box that fails can_place exists for a container of the run
C28_Witness ==
    /\ pc = "done"
    /\ place_result = "True"
    /\ \E k \in 1..Len(containers) :
         /\ Len(containers[k].placed_items) >= 2
         /\ \E pd \in BoxesAround(containers[k]) :
              /\ pd[1][1] + pd[2][1] <= container_l
              /\ ~PassesCanPlace(containers[k], pd[1], pd[2])
    /\ Len(containers) >= 2

\* the eight corners of the box of PlacedItem b
CornersOfBox(b) ==
    {b.x, b.x + b.length} \X {b.y, b.y + b.width} \X {b.z, b.z + b.height}

\* C29: the anchor of every PlacedItem is the origin or one of the eight
\* corners of the box of a PlacedItem placed earlier in the same container,
\* and the first PlacedItem of every container is anchored at the origin.
C29_AnchorsAtCorners ==
    \A k \in 1..Len(containers) :
        LET p == containers[k].placed_items
        IN  /\ <<p[1].x, p[1].y, p[1].z>> = <<0, 0, 0>>
            /\ \A i \in 1..Len(p) :
                 \/ <<p[i].x, p[i].y, p[i].z>> = <<0, 0, 0>>
                 \/ \E j \in 1..(i - 1) :
                      <<p[i].x, p[i].y, p[i].z>> \in CornersOfBox(p[j])

\* a container holds an item anchored away from the origin, at a corner of
\* the second item that is no corner of the first
C29_Witness ==
    \E k \in 1..Len(containers) :
        LET p == containers[k].placed_items
        IN  /\ Len(p) >= 3
            /\ <<p[3].x, p[3].y, p[3].z>> \in CornersOfBox(p[2])
            /\ <<p[3].x, p[3].y, p[3].z>> \notin CornersOfBox(p[1])

\* C30: the used_volume of every container, the sum of the volumes of its
\* PlacedItems, is at most the volume of the container: volume_utilization
\* is at most 100 and remaining_volume is not negative.
C30_VolumeWithinContainer ==
    \A k \in 1..Len(containers) :
        LET c == containers[k]
        IN  /\ used_volume(c) <= container_l * container_w * container_h
            /\ volume_utilization(c).num <= 100 * volume_utilization(c).den
            /\ remaining_volume(c) >= 0

\* a container is filled to the last unit of volume by several items
C30_Witness ==
    \E k \in 1..Len(containers) :
        /\ Len(containers[k].placed_items) >= 2
        /\ remaining_volume(containers[k]) = 0
        /\ volume_utilization(containers[k]).num
               = 100 * volume_utilization(containers[k]).den

====
